---------------------------- MODULE Spec2Model ----------------------------
(***************************************************************************)
(* The render loops of vroom-vroom.                                        *)
(*                                                                         *)
(* Two page scripts drive the same external simulation engine:             *)
(*   "index" : src/wasm_app/index.js (sizes the canvas once at load)       *)
(*   "view"  : src/unnamed/part_000, using the SimulationView class of     *)
(*             src/unnamed/part_001 (re-sizes the canvas in every frame)   *)
(*                                                                         *)
(* JavaScript runs every script and every callback to completion, so the   *)
(* top-level script and each requestAnimationFrame callback is one action. *)
(* An action executes the statements of the handler in source order; an    *)
(* uncaught exception ends the handler at the statement that throws.  The  *)
(* statements executed since the latest entry of redraw() are recorded in  *)
(* log, in order.                                                          *)
(***************************************************************************)
EXTENDS Integers, Sequences, FiniteSets, TLC

VARIABLES
    variant,        \* which page script is loaded: "index" or "view"
    elPresent,      \* does document.getElementById(...) find the canvas
    loaded,         \* has the top-level script run
    window,         \* window.innerWidth, innerHeight, devicePixelRatio
    frameWindow,    \* window as it was when the latest handler ran
    viewportScale,  \* index.js: const viewportScale
    el,             \* the canvas element: width, height, style, client size
    canvas,         \* the shapes on the canvas bitmap, in paint order
    engine,         \* the state of the sim.Simulation instance
    innerHTML,      \* content of the controllerText element
    pending,        \* redraw callbacks registered and not yet invoked
    log,            \* statements executed since the latest redraw() entry
    stepCount,      \* step() calls that returned
    cycles,         \* redraw() invocations that ran to their end
    aborted         \* redraw() invocations ended by a throw after step()

vars == <<variant, elPresent, loaded, window, frameWindow, viewportScale, el,
          canvas, engine, innerHTML, pending, log, stepCount, cycles, aborted>>

---------------------------------------------------------------------------
(* Bounds *)

\* the history counters stepCount, cycles, aborted saturate here
MaxFrames == 2
\* the engine's generation() saturates here
MaxGen == 1
\* the engine completes a generation at the latest after this many steps
MaxGenSteps == 1

Min(a, b) == IF a <= b THEN a ELSE b
Sat(n) == Min(MaxFrames, n)

---------------------------------------------------------------------------
(* JavaScript values *)

Null == [t |-> "null"]
Num(n) == [t |-> "number", v |-> n]
Truthy(v) == v.t # "null" /\ (v.t = "number" => v.v # 0)

\* a template literal's ${v}
Str(v) == IF v.t = "null" THEN "null" ELSE ToString(v.v)

\* a || 1
OrOne(a) == IF a # 0 THEN a ELSE 1

\* n + "px"
Px(n) == <<n, "px">>
Unset == <<>>


---------------------------------------------------------------------------
(* The engine, lib_simulation_wasm: an external collaborator.  Only its    *)
(* interface is visible: step(), world(), generation(),                    *)
(* generation_steps(), prev_generation_statistics().  Coordinates are      *)
(* normalized to [0,1]; the model uses the corner values 0 and 1.          *)

A1 == [x |-> 0, y |-> 1, rotation |-> 0]
A2 == [x |-> 1, y |-> 1, rotation |-> 1]
F1 == [x |-> 1, y |-> 0]
F2 == [x |-> 0, y |-> 1]

Worlds ==
    { [animals |-> <<>>,       food |-> <<F1>>],
      [animals |-> <<A1>>,     food |-> <<>>],
      [animals |-> <<A2, A1>>, food |-> <<F1, F2>>] }

GenerationStats ==
    [t |-> "object", max_fitness |-> Num(4), min_fitness |-> Num(1),
     mean_fitness |-> Num(2), std_fitness |-> Num(3)]

\* new sim.Simulation()
NewSimulation ==
    { [world |-> w, generation |-> 0, generation_steps |-> 0, stats |-> Null] :
      w \in Worlds }

\* The states step() can leave the engine in: one more step of the current
\* generation, or the generation completed (statistics become available).
EngineStep(e) ==
    { [e EXCEPT !.world = w, !.generation_steps = @ + 1] :
        w \in {v \in Worlds : e.generation_steps < MaxGenSteps} }
    \cup
    { [world |-> w, generation |-> Min(MaxGen, e.generation + 1),
       generation_steps |-> 0, stats |-> GenerationStats] : w \in Worlds }

---------------------------------------------------------------------------
(* The host page *)

\* window sizes and pixel ratios the host can report; devicePixelRatio 0
\* stands for an unavailable (undefined) ratio
Windows ==
    [innerWidth : {700, 900}, innerHeight : {350, 450},
     devicePixelRatio : {0, 2}]

\* layout sizes of the index.js canvas before the script sizes it
ClientSizes == { <<300, 150>>, <<400, 400>> }

\* a canvas element as the parser creates it: 300 x 150, no inline style
NewCanvas(cw, ch) ==
    [width |-> 300, height |-> 150, styleWidth |-> Unset, styleHeight |-> Unset,
     clientWidth |-> cw, clientHeight |-> ch]

\* an event of the log: a statement that ran, or the one that threw
Ev(op, args) == [op |-> op, args |-> args, ok |-> TRUE]
Threw(op) == [op |-> op, args |-> <<>>, ok |-> FALSE]

\* CanvasRenderingContext2D.clearRect: erases what lies in the rectangle
clearRect(shapes, x, y, w, h) ==
    SelectSeq(shapes, LAMBDA s :
        ~(x <= s.x /\ s.x <= x + w /\ y <= s.y /\ s.y <= y + h))

\* requestAnimationFrame(callback)
requestAnimationFrame(st) ==
    [st EXCEPT !.pending = @ + 1,
               !.log = Append(@, Ev("requestAnimationFrame", <<>>))]

---------------------------------------------------------------------------
(* class SimulationView (src/unnamed/part_001).  st is the state a handler *)
(* works on; sizes of shapes are in thousandths of a pixel.                *)

View_ANIMAL_SIZE == 10
View_FOOD_SIZE == 3

\* reset() sizing the backing store without the pixel ratio
SimulationView_reset_noRatio(st, win) ==
    LET size == Min(win.innerWidth - 500, win.innerHeight - 50)
        e == [st.el EXCEPT !.width = size, !.height = size,
                           !.styleWidth = Px(size), !.styleHeight = Px(size),
                           !.clientWidth = size, !.clientHeight = size]
    IN  [st EXCEPT !.el = e,
                   !.canvas = clearRect(<<>>, 0, 0, e.width, e.width),
                   !.log = @ \o <<Ev("reset", <<e.width, e.height>>),
                                  Ev("clearRect", <<0, 0, e.width, e.width>>)>>]

\* reset(): assigning width or height resets the canvas bitmap
SimulationView_reset(st, win) ==
    LET pixelRatio == OrOne(win.devicePixelRatio)
        size == Min(win.innerWidth - 500, win.innerHeight - 50)
        e == [st.el EXCEPT !.width = size * pixelRatio,
                           !.height = size * pixelRatio,
                           !.styleWidth = Px(size),
                           !.styleHeight = Px(size),
                           !.clientWidth = size,
                           !.clientHeight = size]
    IN  [st EXCEPT !.el = e,
                   !.canvas = clearRect(<<>>, 0, 0, e.width, e.width),
                   !.log = @ \o <<Ev("reset", <<e.width, e.height>>),
                                  Ev("clearRect", <<0, 0, e.width, e.width>>)>>]

SimulationView_fillAnimal(st, x, y, rotation) ==
    [st EXCEPT !.canvas = Append(@,
                   [shape |-> "triangle", x |-> x, y |-> y, angle |-> rotation,
                    size |-> View_ANIMAL_SIZE * st.el.width,
                    fillStyle |-> "#758b9e"]),
               !.log = Append(@, Ev("fillAnimal", <<x, y, rotation>>))]

RECURSIVE SimulationView_drawAnimals(_, _)
SimulationView_drawAnimals(st, animals) ==
    IF animals = <<>> THEN st
    ELSE LET animal == Head(animals)
         IN  SimulationView_drawAnimals(
                 SimulationView_fillAnimal(st, animal.x * st.el.width,
                                           animal.y * st.el.height,
                                           animal.rotation),
                 Tail(animals))

SimulationView_fillFood(st, x, y) ==
    [st EXCEPT !.canvas = Append(@,
                   [shape |-> "circle", x |-> x, y |-> y, angle |-> 0,
                    size |-> View_FOOD_SIZE * st.el.width,
                    fillStyle |-> "#b4a794"]),
               !.log = Append(@, Ev("fillFood", <<x, y>>))]

RECURSIVE SimulationView_drawFood(_, _)
SimulationView_drawFood(st, food) ==
    IF food = <<>> THEN st
    ELSE LET f == Head(food)
         IN  SimulationView_drawFood(
                 SimulationView_fillFood(st, f.x * st.el.width,
                                         f.y * st.el.height),
                 Tail(food))

---------------------------------------------------------------------------
(* src/unnamed/part_000: the page script built on SimulationView.  A text  *)
(* is the sequence of its pieces; a line break is the piece "\n".          *)

\* setControllerText without the replace(/\n/g, "<br>")
setControllerText_noBreaks(st, text) ==
    [st EXCEPT !.innerHTML = text,
               !.log = Append(@, Ev("setControllerText", <<>>))]

setControllerText(st, text) ==
    LET formattedText ==
            [i \in 1..Len(text) |-> IF text[i] = "\n" THEN "<br>" ELSE text[i]]
    IN  [st EXCEPT !.innerHTML = formattedText,
                   !.log = Append(@, Ev("setControllerText", <<>>))]

\* lines 21-31
view_stats(st) ==
    LET stats == st.engine.stats
        got == Truthy(stats)
    IN  [st EXCEPT !.max_fitness = IF got THEN stats.max_fitness ELSE Null,
                   !.min_fitness = IF got THEN stats.min_fitness ELSE Null,
                   !.mean_fitness = IF got THEN stats.mean_fitness ELSE Null,
                   !.std_fitness = IF got THEN stats.std_fitness ELSE Null,
                   !.log = Append(@, Ev("prev_generation_statistics", <<>>))]

\* line 37
view_textGeneration(st) ==
    [st EXCEPT !.text = <<"Generation: ", Str(Num(st.engine.generation)), "\n">>,
               !.log = Append(@, Ev("generation", <<>>))]

\* line 38
view_textGenerationSteps(st) ==
    [st EXCEPT !.text = @ \o <<"Generation steps: ",
                               Str(Num(st.engine.generation_steps)), "\n", "\n">>,
               !.log = Append(@, Ev("generation_steps", <<>>))]

\* lines 39-43
view_textFitness(st) ==
    [st EXCEPT !.text = @ \o
        <<"Prev generation stats:", "\n",
          "Max fitness: ", Str(st.max_fitness), "\n",
          "Min fitness: ", Str(st.min_fitness), "\n",
          "Mean fitness: ", Str(st.mean_fitness), "\n",
          "Std fitness: ", Str(st.std_fitness), "\n">>]

\* redraw() writing the text before it schedules the next frame
view_redraw_textFirst ==
    << "redraw", "reset", "step", "prev_generation_statistics",
       "drawAnimals", "drawFood",
       "generation", "generation_steps", "fitnessText", "setControllerText",
       "requestAnimationFrame" >>

\* redraw() scheduling the next frame before it steps the engine
view_redraw_scheduleBeforeStep ==
    << "redraw", "reset", "requestAnimationFrame", "step",
       "prev_generation_statistics", "drawAnimals", "drawFood",
       "generation", "generation_steps", "fitnessText", "setControllerText" >>

\* redraw() with the loop of lines 18-20 running twice
view_redraw_twoSteps ==
    << "redraw", "reset", "step", "step", "prev_generation_statistics",
       "drawAnimals", "drawFood", "requestAnimationFrame",
       "generation", "generation_steps", "fitnessText", "setControllerText" >>

\* the statements of redraw(), in source order
view_redraw ==
    << "redraw", "reset", "step", "prev_generation_statistics",
       "drawAnimals", "drawFood", "requestAnimationFrame",
       "generation", "generation_steps", "fitnessText", "setControllerText" >>

\* the statements of the top-level script: lines 6-8, then redraw() of line 47
view_script == <<"SimulationView">> \o view_redraw

---------------------------------------------------------------------------
(* src/wasm_app/index.js *)

ANIMAL_SIZE == 15
FOOD_SIZE == 5

\* lines 8-12
viewportSize(st, win) ==
    LET scale == OrOne(win.devicePixelRatio)
        e1 == [st.el EXCEPT !.width = st.el.clientWidth * scale,
                            !.height = st.el.clientHeight * scale]
        e2 == [e1 EXCEPT !.styleWidth = Px(e1.clientWidth),
                         !.styleHeight = Px(e1.clientHeight)]
    IN  [st EXCEPT !.viewportScale = scale, !.el = e2, !.canvas = <<>>,
                   !.log = Append(@, Ev("viewportSize", <<e2.width, e2.height>>))]

fillAnimal(st, x, y, rotation) ==
    [st EXCEPT !.canvas = Append(@,
                   [shape |-> "triangle", x |-> x, y |-> y, angle |-> rotation,
                    size |-> ANIMAL_SIZE * st.el.width, fillStyle |-> "gray"]),
               !.log = Append(@, Ev("fillAnimal", <<x, y, rotation>>))]

fillFood(st, x, y) ==
    [st EXCEPT !.canvas = Append(@,
                   [shape |-> "circle", x |-> x, y |-> y, angle |-> 0,
                    size |-> FOOD_SIZE * st.el.width, fillStyle |-> "green"]),
               !.log = Append(@, Ev("fillFood", <<x, y>>))]

RECURSIVE draw_animals_loop(_, _)
draw_animals_loop(st, animals) ==
    IF animals = <<>> THEN st
    ELSE LET animal == Head(animals)
         IN  draw_animals_loop(
                 fillAnimal(st, animal.x * st.el.width, animal.y * st.el.height,
                            animal.rotation),
                 Tail(animals))

draw_animals(st) ==
    draw_animals_loop([st EXCEPT !.log = Append(@, Ev("world", <<>>))],
                      st.engine.world.animals)

RECURSIVE draw_food_loop(_, _)
draw_food_loop(st, food) ==
    IF food = <<>> THEN st
    ELSE LET f == Head(food)
         IN  draw_food_loop(
                 fillFood(st, f.x * st.el.width, f.y * st.el.height),
                 Tail(food))

draw_food(st) ==
    draw_food_loop([st EXCEPT !.log = Append(@, Ev("world", <<>>))],
                   st.engine.world.food)

\* redraw() that does not clear the canvas
index_redraw_noClear ==
    << "redraw", "step", "draw_animals", "draw_food", "requestAnimationFrame" >>

\* redraw() that does not request the next frame
index_redraw_once ==
    << "redraw", "clearRect", "step", "draw_animals", "draw_food" >>

\* redraw() scheduling the next frame before it draws
index_redraw_scheduleFirst ==
    << "redraw", "clearRect", "step", "requestAnimationFrame",
       "draw_animals", "draw_food" >>

\* the statements of redraw(), in source order
index_redraw ==
    << "redraw", "clearRect", "step", "draw_animals", "draw_food",
       "requestAnimationFrame" >>

\* the statements of the top-level script: lines 5-12, 67, 68, then redraw()
index_script ==
    <<"getContext", "viewportSize", "draw_animals", "draw_food">> \o index_redraw

---------------------------------------------------------------------------
(* Running a handler: its statements in order, up to the first that throws *)

\* the engine call a statement makes, if any
EngineCall(op) ==
    CASE op = "step" -> "step"
      [] op = "prev_generation_statistics" -> "prev_generation_statistics"
      [] op \in {"drawAnimals", "drawFood", "draw_animals", "draw_food"} -> "world"
      [] op = "generation" -> "generation"
      [] op = "generation_steps" -> "generation_steps"
      [] OTHER -> "none"

\* a script that goes on without the element
NeedsElement_never(op) == FALSE

\* the statements that dereference the canvas element first:
\* viewport.getContext (index.js:6), this.el.width = ... (part_001:11)
NeedsElement(op) == op \in {"getContext", "reset"}

\* the positions of ops at which the engine may throw
ThrowPoints(ops) == {i \in 1..Len(ops) : EngineCall(ops[i]) # "none"}

\* in: [window, elPresent, nextEngine, throwAt]
Fails(ops, i, in) ==
    \/ i = in.throwAt
    \/ NeedsElement(ops[i]) /\ ~in.elPresent

Apply(op, st, in) ==
    CASE op = "redraw" -> [st EXCEPT !.log = <<>>]
      [] op = "SimulationView" -> st
      [] op = "getContext" -> [st EXCEPT !.log = Append(@, Ev("getContext", <<>>))]
      [] op = "viewportSize" -> viewportSize(st, in.window)
      [] op = "reset" -> SimulationView_reset(st, in.window)
      [] op = "clearRect" ->
            [st EXCEPT !.canvas = clearRect(@, 0, 0, st.el.width, st.el.height),
                       !.log = Append(@, Ev("clearRect",
                                   <<0, 0, st.el.width, st.el.height>>))]
      [] op = "step" ->
            [st EXCEPT !.engine = in.nextEngine, !.stepped = @ + 1,
                       !.log = Append(@, Ev("step", <<>>))]
      [] op = "prev_generation_statistics" -> view_stats(st)
      [] op = "drawAnimals" ->
            SimulationView_drawAnimals(
                [st EXCEPT !.log = Append(@, Ev("world", <<>>))],
                st.engine.world.animals)
      [] op = "drawFood" ->
            SimulationView_drawFood(
                [st EXCEPT !.log = Append(@, Ev("world", <<>>))],
                st.engine.world.food)
      [] op = "draw_animals" -> draw_animals(st)
      [] op = "draw_food" -> draw_food(st)
      [] op = "requestAnimationFrame" -> requestAnimationFrame(st)
      [] op = "generation" -> view_textGeneration(st)
      [] op = "generation_steps" -> view_textGenerationSteps(st)
      [] op = "fitnessText" -> view_textFitness(st)
      [] op = "setControllerText" -> setControllerText(st, st.text)

\* One statement at a time, from position i on.  (s is st, evaluated once.)
RECURSIVE Exec(_, _, _, _)
Exec(ops, i, st, in) ==
    CHOOSE r \in
        { IF i > Len(ops) THEN [s EXCEPT !.log = Append(@, Ev("return", <<>>))]
          ELSE IF Fails(ops, i, in)
               THEN [s EXCEPT !.thrown = TRUE,
                              !.log = Append(@, Threw(
                                  IF i = in.throwAt THEN EngineCall(ops[i])
                                                    ELSE ops[i]))]
               ELSE Exec(ops, i + 1, Apply(ops[i], s, in), in) : s \in {st} } :
        TRUE

\* the state a handler starts from; p is the number of callbacks pending
Start(p) ==
    [el |-> el, canvas |-> canvas, engine |-> engine, pending |-> p,
     innerHTML |-> innerHTML, log |-> log, viewportScale |-> viewportScale,
     max_fitness |-> Null, min_fitness |-> Null, mean_fitness |-> Null,
     std_fitness |-> Null, text |-> <<>>, stepped |-> 0, thrown |-> FALSE]

\* the handler's effects become the page's state
Commit(r) ==
    /\ el' = r.el
    /\ canvas' = r.canvas
    /\ engine' = r.engine
    /\ pending' = r.pending
    /\ innerHTML' = r.innerHTML
    /\ log' = r.log
    /\ viewportScale' = r.viewportScale
    /\ frameWindow' = window
    /\ stepCount' = Sat(stepCount + r.stepped)
    /\ cycles' = IF r.thrown THEN cycles ELSE Sat(cycles + 1)
    /\ aborted' = IF r.thrown /\ r.stepped > 0 THEN Sat(aborted + 1) ELSE aborted

\* the inputs of one run of ops; the engine throws only if mayThrow
Inputs(ops, mayThrow) ==
    [window : {window}, elPresent : {elPresent},
     nextEngine : EngineStep(engine),
     throwAt : {0} \cup {i \in ThrowPoints(ops) : mayThrow}]

---------------------------------------------------------------------------
(* Actions *)

Init ==
    /\ variant \in {"index", "view"}
    /\ elPresent \in BOOLEAN
    /\ loaded = FALSE
    /\ window \in Windows
    \* index.js never reads the window's size
    /\ variant = "index" => window.innerWidth = 900 /\ window.innerHeight = 450
    /\ frameWindow = window
    /\ viewportScale = 0
    /\ \E c \in ClientSizes :
          el = IF variant = "index" THEN NewCanvas(c[1], c[2])
                                    ELSE NewCanvas(300, 150)
    /\ canvas = <<>>
    /\ engine \in NewSimulation
    /\ innerHTML = <<>>
    /\ pending = 0
    /\ log = <<>>
    /\ stepCount = 0
    /\ cycles = 0
    /\ aborted = 0

\* the page loads src/wasm_app/index.js
LoadIndex(mayThrow) ==
    /\ variant = "index" /\ ~loaded
    /\ loaded' = TRUE
    /\ \E in \in Inputs(index_script, mayThrow) :
          Commit(Exec(index_script, 1, Start(pending), in))
    /\ UNCHANGED <<variant, elPresent, window>>

\* the page loads src/unnamed/part_000
LoadView(mayThrow) ==
    /\ variant = "view" /\ ~loaded
    /\ loaded' = TRUE
    /\ \E in \in Inputs(view_script, mayThrow) :
          Commit(Exec(view_script, 1, Start(pending), in))
    /\ UNCHANGED <<variant, elPresent, window>>

\* the host invokes a callback registered by index.js
FrameIndex(mayThrow) ==
    /\ variant = "index" /\ loaded /\ pending > 0
    /\ \E in \in Inputs(index_redraw, mayThrow) :
          Commit(Exec(index_redraw, 1, Start(pending - 1), in))
    /\ UNCHANGED <<variant, elPresent, loaded, window>>

\* the host invokes a callback registered by part_000
FrameView(mayThrow) ==
    /\ variant = "view" /\ loaded /\ pending > 0
    /\ \E in \in Inputs(view_redraw, mayThrow) :
          Commit(Exec(view_redraw, 1, Start(pending - 1), in))
    /\ UNCHANGED <<variant, elPresent, loaded, window>>

\* the user resizes the window between two frames
Resize ==
    /\ loaded /\ variant = "view"
    /\ \E w \in Windows :
          /\ w.devicePixelRatio = window.devicePixelRatio
          /\ w # window
          /\ window' = w
    /\ UNCHANGED <<variant, elPresent, loaded, frameWindow, viewportScale, el,
                   canvas, engine, innerHTML, pending, log, stepCount, cycles,
                   aborted>>

\* the device pixel ratio changes between two frames (zoom, another display)
ChangePixelRatio ==
    /\ loaded
    /\ \E r \in {w.devicePixelRatio : w \in Windows} :
          /\ r # window.devicePixelRatio
          /\ window' = [window EXCEPT !.devicePixelRatio = r]
    /\ UNCHANGED <<variant, elPresent, loaded, frameWindow, viewportScale, el,
                   canvas, engine, innerHTML, pending, log, stepCount, cycles,
                   aborted>>

Next ==
    \/ LoadIndex(TRUE)
    \/ LoadView(TRUE)
    \/ FrameIndex(TRUE)
    \/ FrameView(TRUE)
    \/ Resize
    \/ ChangePixelRatio

Spec == Init /\ [][Next]_vars

\* no engine call throws, and the host invokes every registered callback
NextNoThrow ==
    \/ LoadIndex(FALSE)
    \/ LoadView(FALSE)
    \/ FrameIndex(FALSE)
    \/ FrameView(FALSE)
    \/ Resize
    \/ ChangePixelRatio

SpecNoThrow ==
    /\ Init
    /\ [][NextNoThrow]_vars
    /\ WF_vars(FrameIndex(FALSE))
    /\ WF_vars(FrameView(FALSE))

---------------------------------------------------------------------------
(* Reading the log *)

\* the positions of the statements op that ran
Pos(op) == {i \in 1..Len(log) : log[i].op = op /\ log[i].ok}
Count(op) == Cardinality(Pos(op))
Fills == Pos("fillAnimal") \cup Pos("fillFood")
\* every statement op that ran did so before every statement op2 that ran
Before(op, op2) == \A i \in Pos(op), j \in Pos(op2) : i < j

\* the latest handler ended by throwing
CycleThrew == log # <<>> /\ ~log[Len(log)].ok
\* the latest redraw() ran to its end
Completed == log # <<>> /\ log[Len(log)].op = "return"
\* the engine call named c threw in the latest cycle
EngineThrew(c) == CycleThrew /\ log[Len(log)].op = c
\* the latest cycle drew all it had to draw
DrewAll == Count("requestAnimationFrame") > 0

---------------------------------------------------------------------------
(* Claims *)

\* C1: every frame cycle steps the engine exactly once.  No cycle holds more
\* than one step(), a cycle that ran to its end holds exactly one, and the
\* steps taken so far are one per cycle that got past its step(): the cycles
\* completed plus those a later statement ended by throwing.
C1_StepOncePerCycle ==
    /\ Count("step") <= 1
    /\ Completed => Count("step") = 1
    /\ stepCount = Sat(cycles + aborted)

C1_Witness ==
    /\ Completed
    /\ cycles = MaxFrames /\ aborted = 0 /\ stepCount = MaxFrames

\* C2: the next frame is requested only after every fillAnimal and fillFood
\* of the cycle, a cycle requests at most one frame and a completed cycle
\* exactly one, and never more than one callback is pending.
C2_ScheduleAfterRender ==
    /\ pending <= 1
    /\ \A i \in Pos("requestAnimationFrame"), j \in Fills : j < i
    /\ Count("requestAnimationFrame") <= 1
    /\ Completed => Count("requestAnimationFrame") = 1 /\ pending = 1

C2_Witness ==
    /\ Completed /\ cycles = MaxFrames
    /\ Pos("fillAnimal") # {} /\ Pos("fillFood") # {}
    /\ pending = 1

\* the statements of the log that are not paint calls, in order
Skeleton ==
    LET keep == SelectSeq(log, LAMBDA e : e.op \notin {"fillAnimal", "fillFood"})
    IN  [i \in 1..Len(keep) |-> keep[i].op]

StepThrew == EngineThrew("step")

C4_StepThrowStopsLoop ==
    /\ [](StepThrew =>
            /\ pending = 0
            /\ Count("requestAnimationFrame") = 0
            /\ Fills = {}
            /\ canvas = <<>>
            /\ Count("setControllerText") = 0)
    /\ [][StepThrew =>
            /\ StepThrew'
            /\ UNCHANGED <<innerHTML, canvas, engine, pending, log, stepCount,
                           cycles, aborted>>]_vars

C4_Witness == StepThrew /\ cycles = MaxFrames /\ elPresent

\* C5: a throw of any engine call of a cycle ends the loop: no callback is
\* pending after it.
C5_EngineThrowFatal ==
    \A c \in {"step", "prev_generation_statistics", "world", "generation",
              "generation_steps"} :
        EngineThrew(c) => pending = 0

\* C6: a cycle that writes the text panel replaces its content by the block
\* of the generation, the generation steps and the four fitness lines, Max,
\* Min, Mean, Std, each showing "null" when there are no statistics, with
\* every line break a <br>.
Fitness(field) ==
    IF engine.stats.t = "null" THEN "null" ELSE ToString(engine.stats[field].v)

C6_TextPanel ==
    Count("setControllerText") > 0 =>
        innerHTML =
            << "Generation: ", ToString(engine.generation), "<br>",
               "Generation steps: ", ToString(engine.generation_steps), "<br>",
               "<br>",
               "Prev generation stats:", "<br>",
               "Max fitness: ", Fitness("max_fitness"), "<br>",
               "Min fitness: ", Fitness("min_fitness"), "<br>",
               "Mean fitness: ", Fitness("mean_fitness"), "<br>",
               "Std fitness: ", Fitness("std_fitness"), "<br>" >>

\* the panel is written while there are no statistics yet
C6_Witness ==
    /\ Count("setControllerText") > 0
    /\ cycles >= 1
    /\ engine.stats.t = "null"
    /\ innerHTML[11] = "null" /\ innerHTML[20] = "null"

\* the latest handler painted at least one entity
Drawn == Fills # {}

\* the logical size of the canvas when the latest handler ran
LogicalSize ==
    IF variant = "view"
    THEN LET size == Min(frameWindow.innerWidth - 500,
                         frameWindow.innerHeight - 50)
         IN  <<size, size>>
    ELSE <<el.clientWidth, el.clientHeight>>

\* C7 as stated: whenever entities are drawn, the backing store is the
\* logical size times the device pixel ratio of that moment (1 when there is
\* none), and the CSS size is the logical size in px.
C7_ViewportInvariant ==
    Drawn =>
        /\ el.width = LogicalSize[1] * OrOne(frameWindow.devicePixelRatio)
        /\ el.height = LogicalSize[2] * OrOne(frameWindow.devicePixelRatio)
        /\ el.styleWidth = <<LogicalSize[1], "px">>
        /\ el.styleHeight = <<LogicalSize[2], "px">>

\* C7, amended: in the SimulationView script the statement holds, reset()
\* recomputing the viewport in every frame; index.js sizes the viewport once,
\* at load, so its backing store is the logical size times the ratio read at
\* load (viewportScale), whatever the ratio is when a frame is drawn.
C7_ViewportAsSized ==
    Drawn =>
        /\ variant = "view" =>
              /\ el.width = LogicalSize[1] * OrOne(frameWindow.devicePixelRatio)
              /\ el.height = LogicalSize[2] * OrOne(frameWindow.devicePixelRatio)
        /\ variant = "index" =>
              /\ viewportScale >= 1
              /\ el.width = LogicalSize[1] * viewportScale
              /\ el.height = LogicalSize[2] * viewportScale
        /\ el.styleWidth = <<LogicalSize[1], "px">>
        /\ el.styleHeight = <<LogicalSize[2], "px">>

\* ratio 2 and logical size 400: 800 x 800, shown at 400px x 400px, in a
\* frame drawn after earlier frames
C7_Witness ==
    /\ variant = "view" /\ Drawn /\ cycles = MaxFrames
    /\ frameWindow.devicePixelRatio = 2 /\ LogicalSize = <<400, 400>>
    /\ el.width = 800 /\ el.height = 800
    /\ el.styleWidth = <<400, "px">> /\ el.styleHeight = <<400, "px">>

\* C8: without the canvas element the script ends with an error before the
\* loop starts: the engine is never stepped, nothing is drawn, no frame is
\* ever requested.
C8_NoElementNoLoop ==
    (loaded /\ ~elPresent) =>
        /\ CycleThrew
        /\ stepCount = 0 /\ cycles = 0
        /\ Count("step") = 0
        /\ Fills = {} /\ canvas = <<>>
        /\ Count("requestAnimationFrame") = 0 /\ pending = 0

C8_Witness == loaded /\ ~elPresent /\ CycleThrew /\ Len(log) = 1

\* C9: when the element is there and no engine call throws, the loaded page
\* always has a callback pending, and under a host that invokes every
\* callback cycles run again and again, without end.
Started == loaded /\ elPresent

C9_SelfPerpetuating ==
    /\ [](Started => pending = 1)
    /\ <>Started => []<><<FrameIndex(FALSE) \/ FrameView(FALSE)>>_vars

C9_Witness == Started /\ Completed /\ cycles = MaxFrames /\ pending = 1

\* C10: a cycle clears the whole backing store before it paints, and then
\* paints one shape per animal and one per food item of the world it
\* queried, in the engine's order, the animals first: the canvas holds these
\* shapes and nothing else.
ShapeOf(s) == [shape |-> s.shape, x |-> s.x, y |-> s.y, angle |-> s.angle]

WorldShapes ==
    LET a == engine.world.animals
        f == engine.world.food
    IN  [i \in 1..(Len(a) + Len(f)) |->
            IF i <= Len(a)
            THEN [shape |-> "triangle", x |-> a[i].x * el.width,
                  y |-> a[i].y * el.height, angle |-> a[i].rotation]
            ELSE [shape |-> "circle", x |-> f[i - Len(a)].x * el.width,
                  y |-> f[i - Len(a)].y * el.height, angle |-> 0]]

C10_CanvasIsWorld ==
    DrewAll =>
        /\ \E c \in Pos("clearRect") :
              /\ log[c].args = <<0, 0, el.width, el.height>>
              /\ \A j \in Fills : c < j
        /\ Count("fillAnimal") = Len(engine.world.animals)
        /\ Count("fillFood") = Len(engine.world.food)
        /\ \A j \in Pos("fillAnimal"), k \in Pos("fillFood") : j < k
        /\ [i \in 1..Len(canvas) |-> ShapeOf(canvas[i])] = WorldShapes

C10_Witness ==
    /\ DrewAll /\ cycles = MaxFrames
    /\ Len(engine.world.animals) = 2 /\ Len(engine.world.food) = 2
    /\ Len(canvas) = 4

=============================================================================
